---- MODULE Spec2Model ----
(***************************************************************************)
(* The tick-driven position/risk engine of data-science.py:                *)
(* StrategyManager, PortfolioEvaluator and ExecutionSimulator.             *)
(*                                                                         *)
(* Python objects are modelled by a heap: heap[i] is the Position object   *)
(* allocated i-th; active_positions and the trade history hold references  *)
(* (heap indices), as the Python lists hold references to the objects.     *)
(* Prices and sizes are integers; the threshold is given in hundredths     *)
(* (50 stands for 0.5), so  pl < mfe * (1 - t)  is  pl*100 < mfe*(100-t).  *)
(***************************************************************************)
EXTENDS Integers, Sequences, FiniteSets, TLC

VARIABLES
    risk_settings,     \* the dict handed to PortfolioEvaluator.__init__
    constructed,       \* TRUE iff PortfolioEvaluator.__init__ returned
    strategies,        \* StrategyManager.strategies, in dict insertion order
    heap,              \* the Position objects ever created
    active_positions,  \* StrategyManager.active_positions (references)
    trade_history,     \* ExecutionSimulator.trade_history
    ticks_done,        \* number of process_tick_data calls that passed validation
    last,              \* what the last call was, got and returned
    seen               \* history variable: seen[i] is the prices of the ticks of
                       \* position i's instrument handed to update_positions
                       \* while i was active

vars == <<risk_settings, constructed, strategies, heap, active_positions,
          trade_history, ticks_done, last, seen>>

----------------------------------------------------------------------------
(* Bounds of the model *)

MaxTicks == 3

MaxPositions == 2

\* ticks followed in SpecLong
MaxLongTicks == 4

\* ticks one position is followed through when the caller calls
\* update_positions itself
MaxSeen == 3

(* Input alphabets *)

\* the (instrument, price) pairs the feed quotes
Quotes == {<<"X", 0>>, <<"X", 10>>, <<"X", 20>>, <<"Y", 10>>}

StrategyIds == {"A", "B"}

StrategyFuncs == {"f1", "f2"}

Thresholds == {50, 150}

----------------------------------------------------------------------------
(* Python values *)

\* None, and a value that is set: an optional field holds None or Some(v).
None == <<>>

Some(v) == <<v>>

Val(x) == x[1]

\* An empty dict; a dict is a function from its keys.
EmptyDict == [k \in {} |-> 0]

Range(s) == {s[i] : i \in DOMAIN s}

RECURSIVE SumSeq(_)
SumSeq(s) == IF s = <<>> THEN 0 ELSE Head(s) + SumSeq(Tail(s))

\* index of the first TRUE of a sequence of truth values, 0 when there is none
FirstTrue(hits) ==
    IF \E i \in DOMAIN hits : hits[i]
    THEN CHOOSE i \in DOMAIN hits : hits[i] /\ \A j \in 1..(i - 1) : ~hits[j]
    ELSE 0

RemoveAt(s, k) == SubSeq(s, 1, k - 1) \o SubSeq(s, k + 1, Len(s))

----------------------------------------------------------------------------
(* Inputs *)

\* The feed stamps its ticks in non-decreasing order, two ticks per time
\* unit: the tick after n processed ticks carries TickTime(n).
TickTime(n) == (n + 2) \div 2

TicksAt(n, quotes) ==
    {[symbol |-> q[1], price |-> q[2], timestamp |-> TickTime(n)] : q \in quotes}

\* ticks lacking one of the required fields
InvalidTicks ==
    [price : {10}, timestamp : {1}] \cup
    [symbol : {"X"}, timestamp : {1}] \cup
    [symbol : {"X"}, price : {10}]

RiskSettingsInputs ==
    {EmptyDict} \cup [{"mfe_exit_threshold"} -> Thresholds]

\* What one call of a strategy function does: return None, return a signal
\* dict, or raise.
ReturnsNone == [kind |-> "none"]

Raises == [kind |-> "raise"]

Returns(action, size) ==
    [kind |-> "signal", signal |-> [action |-> action, size |-> size]]

\* The strategy functions of the model: f1 goes long or fails, f2 goes short
\* or returns a signal that is not an order (HOLD) or has no size.
FuncOutcomes(f) ==
    IF f = "f1"
    THEN {ReturnsNone, Returns("BUY", 1), Raises}
    ELSE {ReturnsNone, Returns("SELL", 1), Returns("HOLD", 1), Returns("SELL", 0)}

Outcomes == UNION {FuncOutcomes(f) : f \in StrategyFuncs}

----------------------------------------------------------------------------
(* Position (dataclass) *)

Position(symbol, entry_price, entry_time, direction, size, strategy_id) ==
    [symbol |-> symbol, entry_price |-> entry_price, entry_time |-> entry_time,
     direction |-> direction, size |-> size, strategy_id |-> strategy_id,
     current_price |-> None,
     max_favorable_excursion |-> 0,
     max_adverse_excursion |-> 0,
     \* attributes _close_position adds; absent on a new object
     exit_price |-> None, exit_time |-> None, exit_reason |-> None]

\* the __eq__ the dataclass generates: the declared fields, not the exit
\* attributes
PositionEq(p, q) ==
    /\ p.symbol = q.symbol
    /\ p.entry_price = q.entry_price
    /\ p.entry_time = q.entry_time
    /\ p.direction = q.direction
    /\ p.size = q.size
    /\ p.strategy_id = q.strategy_id
    /\ p.current_price = q.current_price
    /\ p.max_favorable_excursion = q.max_favorable_excursion
    /\ p.max_adverse_excursion = q.max_adverse_excursion

----------------------------------------------------------------------------
(* StrategyManager *)

\* Faulty variant of register_strategy: a registered identifier is deleted and
\* inserted again, so it moves to the end.
register_strategy_reinsert(strats, strategy_id, strategy_func) ==
    Append(SelectSeq(strats, LAMBDA x : x.id # strategy_id),
           [id |-> strategy_id, func |-> strategy_func])

\* self.strategies[strategy_id] = strategy_func on an insertion-ordered dict
register_strategy(strats, strategy_id, strategy_func) ==
    IF \E i \in DOMAIN strats : strats[i].id = strategy_id
    THEN [i \in DOMAIN strats |->
            IF strats[i].id = strategy_id
            THEN [id |-> strategy_id, func |-> strategy_func]
            ELSE strats[i]]
    ELSE Append(strats, [id |-> strategy_id, func |-> strategy_func])

_get_strategy_positions(hp, active, strategy_id) ==
    SelectSeq(active, LAMBDA i : hp[i].strategy_id = strategy_id)

\* The loop of process_tick from strategy k on. outcome[id] is what the
\* function registered under id does when called.
RECURSIVE process_tick_from(_, _, _, _, _, _, _)
process_tick_from(strats, hp, active, outcome, k, signals, invoked) ==
    IF k > Len(strats)
    THEN [error |-> "", signals |-> signals, invoked |-> invoked]
    ELSE LET sid == strats[k].id
             res  == outcome[sid]
             call == [id |-> sid, func |-> strats[k].func,
                      positions |-> _get_strategy_positions(hp, active, sid),
                      result |-> res]
         IN  IF res.kind = "raise"
             THEN [error |-> "StrategyError", signals |-> <<>>,
                   invoked |-> Append(invoked, call)]
             ELSE process_tick_from(strats, hp, active, outcome, k + 1,
                      IF res.kind = "signal"
                      THEN Append(signals, <<sid, res.signal>>)
                      ELSE signals,
                      Append(invoked, call))

process_tick(strats, hp, active, outcome) ==
    process_tick_from(strats, hp, active, outcome, 1, <<>>, <<>>)

\* Faulty variant of update_position: the excursions are overwritten by the
\* current profit/loss instead of being compared with it.
update_position_overwrite(p, tick_data) ==
    LET pl == (tick_data.price - p.entry_price) * p.direction * p.size
    IN  [p EXCEPT !.current_price = Some(tick_data.price),
                  !.max_favorable_excursion = pl,
                  !.max_adverse_excursion = pl]

\* the body of the loop of update_positions for a matching position
update_position(p, tick_data) ==
    LET pl == (tick_data.price - p.entry_price) * p.direction * p.size
    IN  [p EXCEPT !.current_price = Some(tick_data.price),
                  !.max_favorable_excursion = IF pl > @ THEN pl ELSE @,
                  !.max_adverse_excursion = IF pl < @ THEN pl ELSE @]

\* Faulty variant of update_positions: every active position is updated,
\* whatever its symbol.
update_positions_any_symbol(hp, active, tick_data) ==
    [i \in DOMAIN hp |->
        IF i \in Range(active)
        THEN update_position(hp[i], tick_data)
        ELSE hp[i]]

\* Faulty variant of update_positions: every position ever created is
\* updated, the closed ones too.
update_positions_every(hp, active, tick_data) ==
    [i \in DOMAIN hp |->
        IF /\ "symbol" \in DOMAIN tick_data
           /\ hp[i].symbol = tick_data.symbol
        THEN update_position(hp[i], tick_data)
        ELSE hp[i]]

\* tick_data.get('symbol') is None, equal to no symbol, when the key is absent
update_positions(hp, active, tick_data) ==
    [i \in DOMAIN hp |->
        IF /\ i \in Range(active)
           /\ "symbol" \in DOMAIN tick_data
           /\ hp[i].symbol = tick_data.symbol
        THEN update_position(hp[i], tick_data)
        ELSE hp[i]]

----------------------------------------------------------------------------
(* PortfolioEvaluator *)

\* __init__: raises ValueError when a required setting is not in the dict
PortfolioEvaluator_init(rs) ==
    IF "mfe_exit_threshold" \notin DOMAIN rs THEN "ValueError" ELSE ""

\* the keys of symbol_groups in insertion order: the symbols of the active
\* positions, each at its first occurrence
RECURSIVE symbol_keys(_, _, _)
symbol_keys(hp, active, keys) ==
    IF active = <<>> THEN keys
    ELSE LET sym == hp[Head(active)].symbol
         IN  symbol_keys(hp, Tail(active),
                 IF sym \in Range(keys) THEN keys ELSE Append(keys, sym))

symbol_groups(hp, active) ==
    LET keys == symbol_keys(hp, active, <<>>)
    IN  [k \in DOMAIN keys |->
            [symbol |-> keys[k],
             pos_group |-> SelectSeq(active, LAMBDA i : hp[i].symbol = keys[k])]]

\* (p.current_price - p.entry_price) * p.direction * p.size, p.current_price set
profit_loss(p) == (Val(p.current_price) - p.entry_price) * p.direction * p.size

\* Faulty variant of mfe_trailing_stop: the test total_mfe > 0 is left out.
mfe_trailing_stop_unguarded(total_mfe, current_pl, threshold) ==
    current_pl * 100 < total_mfe * (100 - threshold)

\* the trailing-stop test of one group
mfe_trailing_stop(total_mfe, current_pl, threshold) ==
    total_mfe > 0 /\ current_pl * 100 < total_mfe * (100 - threshold)

\* The loop over symbol_groups.items() from group k on. Subtracting from a
\* current_price that is None raises TypeError.
RECURSIVE evaluate_groups(_, _, _, _, _)
evaluate_groups(hp, rs, groups, k, exit_signals) ==
    IF k > Len(groups)
    THEN [error |-> "", exit_signals |-> exit_signals]
    ELSE LET g == groups[k].pos_group
         IN  IF \E i \in DOMAIN g : hp[g[i]].current_price = None
             THEN [error |-> "TypeError", exit_signals |-> <<>>]
             ELSE LET total_mfe ==
                          SumSeq([i \in DOMAIN g |-> hp[g[i]].max_favorable_excursion])
                      current_pl ==
                          SumSeq([i \in DOMAIN g |-> profit_loss(hp[g[i]])])
                  IN  evaluate_groups(hp, rs, groups, k + 1,
                          IF mfe_trailing_stop(total_mfe, current_pl,
                                               rs["mfe_exit_threshold"])
                          THEN exit_signals \o
                               [i \in DOMAIN g |-> <<g[i], "MFE_TRAILING_STOP">>]
                          ELSE exit_signals)

evaluate_exit_conditions(hp, active, rs) ==
    IF active = <<>>
    THEN [error |-> "", exit_signals |-> <<>>]
    ELSE evaluate_groups(hp, rs, symbol_groups(hp, active), 1, <<>>)

\* Python truth value of current_price: None and 0 are false
Truthy(x) == x # None /\ Val(x) # 0

\* placeholders of the source: return 0.0 and {}
_calculate_max_drawdown == 0

_calculate_strategy_correlation == EmptyDict

calculate_portfolio_metrics(hp, active) ==
    LET counted == SelectSeq(active, LAMBDA i : Truthy(hp[i].current_price))
    IN  [total_positions |-> Len(active),
         net_exposure |->
             SumSeq([i \in DOMAIN active |-> hp[active[i]].size * hp[active[i]].direction]),
         total_profit_loss |->
             SumSeq([i \in DOMAIN counted |-> profit_loss(hp[counted[i]])]),
         max_drawdown |-> _calculate_max_drawdown,
         strategy_correlation |-> _calculate_strategy_correlation]

\* Faulty variant of portfolio_metrics_call: a position that has no current
\* price yet is given its entry price before the sums are taken.
portfolio_metrics_call_filling(e) ==
    LET hp == [i \in DOMAIN e.heap |->
                  IF i \in Range(e.active_positions) /\ e.heap[i].current_price = None
                  THEN [e.heap[i] EXCEPT !.current_price = Some(e.heap[i].entry_price)]
                  ELSE e.heap[i]]
    IN  [e |-> [e EXCEPT !.heap = hp],
         metrics |-> calculate_portfolio_metrics(hp, e.active_positions)]

\* a call of calculate_portfolio_metrics on the engine state e: the state it
\* leaves (the method assigns to nothing) and the dict it returns
portfolio_metrics_call(e) ==
    [e |-> e, metrics |-> calculate_portfolio_metrics(e.heap, e.active_positions)]

NoMetrics == [total_positions |-> 0, net_exposure |-> 0, total_profit_loss |-> 0]

----------------------------------------------------------------------------
(* ExecutionSimulator. An engine state e is the record of the three         *)
(* mutable structures: heap, active_positions, trade_history.              *)

\* Faulty variant of _open_position: the new position takes the price of the
\* tick that opens it as its current price.
_open_position_priced(e, strategy_id, tick, size, direction) ==
    LET position == Len(e.heap) + 1
    IN  [heap |-> Append(e.heap,
                     [Position(tick.symbol, tick.price, tick.timestamp,
                               direction, size, strategy_id)
                         EXCEPT !.current_price = Some(tick.price)]),
         active_positions |-> Append(e.active_positions, position),
         trade_history |-> Append(e.trade_history,
                     [action |-> "OPEN", timestamp |-> tick.timestamp,
                      position |-> position, reason |-> None])]

\* Faulty variant of _open_position: the new position is put at the front of
\* the active list.
_open_position_front(e, strategy_id, tick, size, direction) ==
    LET position == Len(e.heap) + 1
    IN  [heap |-> Append(e.heap,
                     Position(tick.symbol, tick.price, tick.timestamp,
                              direction, size, strategy_id)),
         active_positions |-> <<position>> \o e.active_positions,
         trade_history |-> Append(e.trade_history,
                     [action |-> "OPEN", timestamp |-> tick.timestamp,
                      position |-> position, reason |-> None])]

_open_position(e, strategy_id, tick, size, direction) ==
    LET position == Len(e.heap) + 1
    IN  [heap |-> Append(e.heap,
                     Position(tick.symbol, tick.price, tick.timestamp,
                              direction, size, strategy_id)),
         active_positions |-> Append(e.active_positions, position),
         trade_history |-> Append(e.trade_history,
                     [action |-> "OPEN", timestamp |-> tick.timestamp,
                      position |-> position, reason |-> None])]

\* Faulty variant of _close_position: the position is removed from the
\* active list and no CLOSE entry is appended.
_close_position_unlogged(e, position, tick, reason) ==
    LET hp == [e.heap EXCEPT ![position].exit_price = Some(tick.price),
                             ![position].exit_time = Some(tick.timestamp),
                             ![position].exit_reason = Some(reason)]
        k  == FirstTrue([j \in DOMAIN e.active_positions |->
                            \/ e.active_positions[j] = position
                            \/ PositionEq(hp[e.active_positions[j]], hp[position])])
    IN  IF k = 0
        THEN [error |-> "ValueError",
              e |-> [e EXCEPT !.heap = hp]]
        ELSE [error |-> "",
              e |-> [heap |-> hp,
                     active_positions |-> RemoveAt(e.active_positions, k),
                     trade_history |-> e.trade_history]]

\* list.remove(position): removes the first element that is the object or
\* compares equal to it; ValueError when there is none. The exit attributes
\* are assigned before remove is called.
_close_position(e, position, tick, reason) ==
    LET hp == [e.heap EXCEPT ![position].exit_price = Some(tick.price),
                             ![position].exit_time = Some(tick.timestamp),
                             ![position].exit_reason = Some(reason)]
        k  == FirstTrue([j \in DOMAIN e.active_positions |->
                            \/ e.active_positions[j] = position
                            \/ PositionEq(hp[e.active_positions[j]], hp[position])])
    IN  IF k = 0
        THEN [error |-> "ValueError",
              e |-> [e EXCEPT !.heap = hp]]
        ELSE [error |-> "",
              e |-> [heap |-> hp,
                     active_positions |-> RemoveAt(e.active_positions, k),
                     trade_history |-> Append(e.trade_history,
                         [action |-> "CLOSE", timestamp |-> tick.timestamp,
                          position |-> position, reason |-> Some(reason)])]]

\* Faulty variant of close_all: the flagged positions are closed from the
\* last one to the first.
RECURSIVE close_all_reversed(_, _, _)
close_all_reversed(e, exit_signals, tick) ==
    IF exit_signals = <<>> THEN [error |-> "", e |-> e]
    ELSE LET n == Len(exit_signals)
             r == _close_position(e, exit_signals[n][1], tick, exit_signals[n][2])
         IN  IF r.error # "" THEN r
             ELSE close_all_reversed(r.e, SubSeq(exit_signals, 1, n - 1), tick)

\* for position, reason in exit_signals: self._close_position(...)
RECURSIVE close_all(_, _, _)
close_all(e, exit_signals, tick) ==
    IF exit_signals = <<>> THEN [error |-> "", e |-> e]
    ELSE LET r == _close_position(e, Head(exit_signals)[1], tick,
                                  Head(exit_signals)[2])
         IN  IF r.error # "" THEN r
             ELSE close_all(r.e, Tail(exit_signals), tick)

\* for strategy_id, signal in new_signals: BUY opens +1, SELL opens -1,
\* any other action opens nothing
RECURSIVE open_all(_, _, _)
open_all(e, new_signals, tick) ==
    IF new_signals = <<>> THEN e
    ELSE LET strategy_id == Head(new_signals)[1]
             signal == Head(new_signals)[2]
             e1 == IF signal.action = "BUY"
                   THEN _open_position(e, strategy_id, tick, signal.size, 1)
                   ELSE IF signal.action = "SELL"
                   THEN _open_position(e, strategy_id, tick, signal.size, -1)
                   ELSE e
         IN  open_all(e1, Tail(new_signals), tick)

Returned(e, error, updated, exit_signals, invoked, signals, metrics) ==
    [e |-> e, error |-> error, updated |-> updated, exit_signals |-> exit_signals,
     invoked |-> invoked, signals |-> signals, metrics |-> metrics]

\* Faulty variant of pipeline: the strategies are dispatched and their
\* positions opened first, the exits are evaluated and closed last.
pipeline_exits_last(e, strats, rs, tick, outcome) ==
    LET pt == process_tick(strats, e.heap, e.active_positions, outcome)
    IN  IF pt.error # ""
        THEN Returned(e, pt.error, TRUE, <<>>, pt.invoked, <<>>, NoMetrics)
        ELSE
        LET e1 == open_all(e, pt.signals, tick)
            e2 == [e1 EXCEPT !.heap = update_positions(e1.heap, e1.active_positions, tick)]
            ev == evaluate_exit_conditions(e2.heap, e2.active_positions, rs)
        IN  IF ev.error # ""
            THEN Returned(e2, ev.error, TRUE, <<>>, pt.invoked, pt.signals, NoMetrics)
            ELSE
            LET cl == close_all(e2, ev.exit_signals, tick)
            IN  Returned(cl.e, cl.error, TRUE, ev.exit_signals, pt.invoked, pt.signals,
                    calculate_portfolio_metrics(cl.e.heap, cl.e.active_positions))

\* process_tick_data after the check of the required fields: what it leaves
\* of the engine state e, the exception it raises ("" when it returns), and
\* what its steps produced.
pipeline(e, strats, rs, tick, outcome) ==
    LET e1 == [e EXCEPT !.heap = update_positions(e.heap, e.active_positions, tick)]
        ev == evaluate_exit_conditions(e1.heap, e1.active_positions, rs)
    IN  IF ev.error # ""
        THEN Returned(e1, ev.error, TRUE, <<>>, <<>>, <<>>, NoMetrics)
        ELSE
        LET cl == close_all(e1, ev.exit_signals, tick)
        IN  IF cl.error # ""
            THEN Returned(cl.e, cl.error, TRUE, ev.exit_signals, <<>>, <<>>, NoMetrics)
            ELSE
            LET pt == process_tick(strats, cl.e.heap, cl.e.active_positions, outcome)
            IN  IF pt.error # ""
                THEN Returned(cl.e, pt.error, TRUE, ev.exit_signals, pt.invoked,
                              <<>>, NoMetrics)
                ELSE
                LET e3 == open_all(cl.e, pt.signals, tick)
                IN  Returned(e3, "", TRUE, ev.exit_signals, pt.invoked, pt.signals,
                             calculate_portfolio_metrics(e3.heap, e3.active_positions))

required_fields == {"symbol", "price", "timestamp"}

\* Faulty variant of process_tick_data: the positions are updated before the
\* timestamp is looked for.
process_tick_data_late_check(e, strats, rs, tick, outcome) ==
    IF \E field \in {"symbol", "price"} : field \notin DOMAIN tick
    THEN Returned(e, "ValueError", FALSE, <<>>, <<>>, <<>>, NoMetrics)
    ELSE IF "timestamp" \notin DOMAIN tick
    THEN Returned([e EXCEPT !.heap = update_positions(e.heap, e.active_positions, tick)],
                  "ValueError", FALSE, <<>>, <<>>, <<>>, NoMetrics)
    ELSE pipeline(e, strats, rs, tick, outcome)

process_tick_data(e, strats, rs, tick, outcome) ==
    IF \E field \in required_fields : field \notin DOMAIN tick
    THEN Returned(e, "ValueError", FALSE, <<>>, <<>>, <<>>, NoMetrics)
    ELSE pipeline(e, strats, rs, tick, outcome)

----------------------------------------------------------------------------
(* The state machine *)

Engine == [heap |-> heap, active_positions |-> active_positions,
           trade_history |-> trade_history]

NoTick == EmptyDict

LastRecord(op, tick, r) ==
    [op |-> op, tick |-> tick, error |-> r.error, updated |-> r.updated,
     exit_signals |-> r.exit_signals, invoked |-> r.invoked,
     signals |-> r.signals, metrics |-> r.metrics]

NothingReturned(error) ==
    Returned(Engine, error, FALSE, <<>>, <<>>, <<>>, NoMetrics)

\* seen after update_positions was handed tick_data: the loop visits the
\* active positions and takes those of the tick's symbol
Observed(tick_data) ==
    [i \in DOMAIN seen |->
        IF /\ i \in Range(active_positions)
           /\ "symbol" \in DOMAIN tick_data
           /\ heap[i].symbol = tick_data.symbol
        THEN Append(seen[i], tick_data.price)
        ELSE seen[i]]

\* PortfolioEvaluator(strategy_manager, risk_settings) and
\* ExecutionSimulator(strategy_manager, portfolio_evaluator) on a new
\* StrategyManager
Construct(settings) ==
    /\ risk_settings \in settings
    /\ constructed = (PortfolioEvaluator_init(risk_settings) = "")
    /\ strategies = <<>>
    /\ heap = <<>>
    /\ active_positions = <<>>
    /\ trade_history = <<>>
    /\ ticks_done = 0
    /\ seen = <<>>
    /\ last = [op |-> "init", tick |-> NoTick,
               error |-> PortfolioEvaluator_init(risk_settings),
               updated |-> FALSE, exit_signals |-> <<>>, invoked |-> <<>>,
               signals |-> <<>>, metrics |-> NoMetrics]

RegisterStrategy(strategy_id, strategy_func) ==
    /\ constructed
    /\ strategies' = register_strategy(strategies, strategy_id, strategy_func)
    /\ last' = [LastRecord("register_strategy", NoTick, NothingReturned(""))
                    EXCEPT !.invoked = <<[id |-> strategy_id, func |-> strategy_func,
                                          positions |-> <<>>,
                                          result |-> ReturnsNone]>>]
    /\ UNCHANGED <<risk_settings, constructed, heap, active_positions,
                   trade_history, ticks_done, seen>>

ProcessTickData(tick, outcome, max_ticks) ==
    /\ constructed
    /\ \E r \in {process_tick_data(Engine, strategies, risk_settings, tick, outcome)} :
           /\ r.updated => ticks_done < max_ticks
           /\ Len(r.e.heap) <= MaxPositions
           /\ heap' = r.e.heap
           /\ active_positions' = r.e.active_positions
           /\ trade_history' = r.e.trade_history
           /\ ticks_done' = IF r.updated THEN ticks_done + 1 ELSE ticks_done
           /\ last' = LastRecord("process_tick_data", tick, r)
           /\ seen' = [i \in DOMAIN r.e.heap |->
                          IF i \notin DOMAIN heap THEN <<>>
                          ELSE IF r.updated THEN Observed(tick)[i] ELSE seen[i]]
    /\ UNCHANGED <<risk_settings, constructed, strategies>>

\* a caller's own call of _close_position on a Position object it holds
ClosePosition(position, tick, reason) ==
    /\ constructed
    /\ \E r \in {_close_position(Engine, position, tick, reason)} :
           /\ heap' = r.e.heap
           /\ active_positions' = r.e.active_positions
           /\ trade_history' = r.e.trade_history
           /\ last' = [LastRecord("_close_position", tick, NothingReturned(r.error))
                          EXCEPT !.exit_signals = <<<<position, reason>>>>]
    /\ UNCHANGED <<risk_settings, constructed, strategies, ticks_done, seen>>

\* a caller's own call of portfolio_evaluator.calculate_portfolio_metrics()
CalculatePortfolioMetrics ==
    /\ constructed
    /\ \E r \in {portfolio_metrics_call(Engine)} :
           /\ heap' = r.e.heap
           /\ active_positions' = r.e.active_positions
           /\ trade_history' = r.e.trade_history
           /\ last' = [LastRecord("calculate_portfolio_metrics", NoTick,
                                  NothingReturned(""))
                          EXCEPT !.metrics = r.metrics]
    /\ UNCHANGED <<risk_settings, constructed, strategies, ticks_done, seen>>

\* a caller's own call of strategy_manager.update_positions(tick_data)
UpdatePositions(tick_data) ==
    /\ constructed
    /\ \A i \in DOMAIN seen : Len(Observed(tick_data)[i]) <= MaxSeen
    /\ heap' = update_positions(heap, active_positions, tick_data)
    /\ last' = LastRecord("update_positions", tick_data, NothingReturned(""))
    /\ seen' = Observed(tick_data)
    /\ UNCHANGED <<risk_settings, constructed, strategies, active_positions,
                   trade_history, ticks_done>>

RegisteredIds == {strategies[i].id : i \in DOMAIN strategies}

\* what the registered functions may do when called: one outcome per
\* identifier, among those of the function registered under it
OutcomeChoices ==
    {o \in [RegisteredIds -> Outcomes] :
        \A i \in DOMAIN strategies :
            o[strategies[i].id] \in FuncOutcomes(strategies[i].func)}

RegisterAmong(pairs) == \E p \in pairs : RegisterStrategy(p[1], p[2])

ValidTickOn(quotes, max_ticks) ==
    \E tick \in TicksAt(ticks_done, quotes), outcome \in OutcomeChoices :
        ProcessTickData(tick, outcome, max_ticks)

----------------------------------------------------------------------------
(* Spec: the engine fed by two instruments, with strategy A running f1 and  *)
(* strategy B running f2, registered at any moment.                        *)

Init == Construct(RiskSettingsInputs)

Register == RegisterAmong({<<"A", "f1">>, <<"B", "f2">>})

ValidTick == ValidTickOn(Quotes, MaxTicks)

InvalidTick ==
    \E tick \in InvalidTicks :
        ProcessTickData(tick, [sid \in RegisteredIds |-> ReturnsNone], MaxTicks)

Next == Register \/ ValidTick \/ InvalidTick

Spec == Init /\ [][Next]_vars

----------------------------------------------------------------------------
(* SpecDispatch: registration and dispatch; every identifier may be given   *)
(* either function, and given another one later. One instrument.           *)

QuotesX == {<<"X", 10>>, <<"X", 20>>}


InitDispatch == Construct({[k \in {"mfe_exit_threshold"} |-> 50]})

RegisterAny == RegisterAmong(StrategyIds \X StrategyFuncs)

ValidTickX == ValidTickOn(QuotesX, MaxTicks)

NextDispatch == RegisterAny \/ ValidTickX

SpecDispatch == InitDispatch /\ [][NextDispatch]_vars

----------------------------------------------------------------------------
(* SpecClose: a caller that also calls _close_position itself, on Position  *)
(* objects it got from the trade history. One long strategy, one            *)
(* instrument.                                                              *)

RegisterLong == RegisterAmong({<<"A", "f1">>})

DirectClose ==
    \E position \in DOMAIN heap, tick \in TicksAt(ticks_done, QuotesX) :
        ClosePosition(position, tick, "MANUAL")

NextClose == RegisterLong \/ ValidTickX \/ DirectClose

SpecClose == InitDispatch /\ [][NextClose]_vars

----------------------------------------------------------------------------
(* SpecLong: one long strategy trading two instruments, followed for more   *)
(* ticks.                                                                   *)

QuotesLong == {<<"X", 10>>, <<"X", 20>>, <<"Y", 10>>}

ValidTickLong == ValidTickOn(QuotesLong, MaxLongTicks)

NextLong == RegisterLong \/ ValidTickLong

SpecLong == InitDispatch /\ [][NextLong]_vars

----------------------------------------------------------------------------
(* SpecCaller: a caller that, between the ticks, also asks for the metrics  *)
(* and calls update_positions itself, with a tick of the feed or with one   *)
(* that has no symbol. One long strategy, two instruments.                  *)

DirectMetrics == CalculatePortfolioMetrics

DirectUpdate ==
    \E tick_data \in TicksAt(ticks_done, QuotesLong) \cup [price : {20}, timestamp : {1}] :
        UpdatePositions(tick_data)

ValidTickCaller == ValidTickOn(QuotesLong, MaxTicks)

NextCaller == RegisterLong \/ ValidTickCaller \/ DirectMetrics \/ DirectUpdate

SpecCaller == InitDispatch /\ [][NextCaller]_vars

----------------------------------------------------------------------------
(* Properties *)

IsTickCall(l) == l.op = "process_tick_data"

IsValidTick(tick) == required_fields \subseteq DOMAIN tick

\* the entries a step appends to the trade history
Appended == SubSeq(trade_history', Len(trade_history) + 1, Len(trade_history'))

\* C1: over every step, each position's MFE is >= 0 and does not decrease,
\* and its MAE is <= 0 and does not increase.
C1_ExcursionsMonotone ==
    [][/\ \A i \in DOMAIN heap' :
            /\ heap'[i].max_favorable_excursion >= 0
            /\ heap'[i].max_adverse_excursion <= 0
       /\ \A i \in DOMAIN heap :
            /\ heap'[i].max_favorable_excursion >= heap[i].max_favorable_excursion
            /\ heap'[i].max_adverse_excursion <= heap[i].max_adverse_excursion]_vars

\* after a tick, an active position whose profit has fallen back below its
\* MFE and an active position whose loss has recovered above its MAE
C1_Witness ==
    /\ IsTickCall(last)
    /\ last.error = ""
    /\ \E i \in Range(active_positions) :
          /\ heap[i].max_favorable_excursion > 0
          /\ profit_loss(heap[i]) < heap[i].max_favorable_excursion
    /\ \E i \in Range(active_positions) :
          /\ heap[i].max_adverse_excursion < 0
          /\ profit_loss(heap[i]) > heap[i].max_adverse_excursion

\* C2: a process_tick_data call with a tick lacking a required field raises
\* the validation error, leaves heap, active list and history as they were
\* and calls no strategy function.
C2_InvalidTickRejected ==
    [][(IsTickCall(last') /\ ~IsValidTick(last'.tick)) =>
          /\ last'.error = "ValueError"
          /\ heap' = heap
          /\ active_positions' = active_positions
          /\ trade_history' = trade_history
          /\ last'.invoked = <<>>]_vars

\* an invalid tick of instrument X rejected while a position of X with
\* another current price is active and a strategy is registered
C2_Witness ==
    /\ IsTickCall(last)
    /\ ~IsValidTick(last.tick)
    /\ last.error = "ValueError"
    /\ last.tick = [symbol |-> "X", price |-> 10]
    /\ strategies # <<>>
    /\ \E i \in Range(active_positions) :
          heap[i].symbol = "X" /\ heap[i].current_price = Some(20)

\* C3: in one call the closes come before the opens: among the entries the
\* call appends no OPEN precedes a CLOSE, no position has both, every flagged
\* position existed before the call, and every position the call opens is
\* active when it returns.
C3_NoCloseOfOwnOpen ==
    [][IsTickCall(last') =>
          /\ \A k \in DOMAIN last'.exit_signals :
                last'.exit_signals[k][1] \in DOMAIN heap
          /\ \A a, b \in DOMAIN Appended :
                (Appended[a].action = "OPEN" /\ Appended[b].action = "CLOSE") =>
                    /\ b < a
                    /\ Appended[a].position # Appended[b].position
          /\ \A a \in DOMAIN Appended :
                Appended[a].action = "OPEN" =>
                    Appended[a].position \in Range(active_positions')]_vars

\* a call that closed a group of an instrument and opened a new position of
\* that same instrument, which is active afterwards
C3_Witness ==
    /\ IsTickCall(last)
    /\ last.error = ""
    /\ last.exit_signals # <<>>
    /\ \E i \in Range(active_positions) :
          /\ heap[i].symbol = heap[last.exit_signals[1][1]].symbol
          /\ trade_history[Len(trade_history)] =
                [action |-> "OPEN", timestamp |-> last.tick.timestamp,
                 position |-> i, reason |-> None]

\* C5: a call with a valid tick, in which no strategy function raises, runs
\* to the end and returns the metrics.
C5_ValidTickReturns ==
    (IsTickCall(last) /\ IsValidTick(last.tick)) =>
        (last.error = "" \/ last.error = "StrategyError")

\* C6: an evaluator exists only with a threshold that is present and lies
\* in (0, 1], that is in 1..100 hundredths.
C6_ThresholdChecked ==
    constructed =>
        /\ "mfe_exit_threshold" \in DOMAIN risk_settings
        /\ risk_settings["mfe_exit_threshold"] > 0
        /\ risk_settings["mfe_exit_threshold"] <= 100

\* C7: when a strategy function raises during a dispatch, every registered
\* strategy is still called and the call returns the metrics.
C7_FailureIsolated ==
    (IsTickCall(last) /\ IsValidTick(last.tick) /\ last.error # "TypeError") =>
        /\ last.error = ""
        /\ Len(last.invoked) = Len(strategies)

\* the sum of F[x] over the x in S
RECURSIVE SumOver(_, _)
SumOver(S, F) ==
    IF S = {} THEN 0
    ELSE LET x == CHOOSE y \in S : TRUE IN F[x] + SumOver(S \ {x}, F)

\* In a step that is a call of process_tick_data, the exits are evaluated on
\* the active list the call started with and on the field values the update
\* left, which no later step of the call changes: active_positions and heap'.
GroupAtExit(sym) == {i \in Range(active_positions) : heap'[i].symbol = sym}

MfeAtExit == [i \in DOMAIN heap |-> heap'[i].max_favorable_excursion]

ProfitAtExit == [i \in DOMAIN heap |-> profit_loss(heap'[i])]

QualifiesAtExit(sym) ==
    /\ SumOver(GroupAtExit(sym), MfeAtExit) > 0
    /\ SumOver(GroupAtExit(sym), ProfitAtExit) * 100 <
           SumOver(GroupAtExit(sym), MfeAtExit) * (100 - risk_settings["mfe_exit_threshold"])

PlaceInActive(i) == FirstTrue([j \in DOMAIN active_positions |-> active_positions[j] = i])

GroupPlace(i) ==
    FirstTrue([j \in DOMAIN active_positions |->
                  heap'[active_positions[j]].symbol = heap'[i].symbol])

FlaggedAtExit(i) == \E k \in DOMAIN last'.exit_signals : last'.exit_signals[k][1] = i

\* the flags carry the reason and come group by group, groups in first-seen
\* order and the positions of a group in active-list order
FlaggedInOrder ==
    LET flagged == last'.exit_signals
    IN  /\ \A k \in DOMAIN flagged :
              /\ flagged[k][1] \in Range(active_positions)
              /\ flagged[k][2] = "MFE_TRAILING_STOP"
        /\ \A k, l \in DOMAIN flagged :
              k < l =>
                  \/ GroupPlace(flagged[k][1]) < GroupPlace(flagged[l][1])
                  \/ /\ GroupPlace(flagged[k][1]) = GroupPlace(flagged[l][1])
                     /\ PlaceInActive(flagged[k][1]) < PlaceInActive(flagged[l][1])

\* C4: in a call that passed validation, a position is flagged if and only if
\* its instrument group has totalMFE > 0 and currentPL below
\* totalMFE * (1 - threshold) (for every group whose current prices are all
\* set, so that currentPL is defined); each is flagged once, with reason
\* MFE_TRAILING_STOP, groups in first-seen order and positions of a group in
\* active-list order.
C4_FlaggedIffGroupQualifies ==
    [][(IsTickCall(last') /\ last'.updated) =>
          /\ \A i \in Range(active_positions) :
                (\A j \in GroupAtExit(heap'[i].symbol) : heap'[j].current_price # None)
                    => (FlaggedAtExit(i) <=> QualifiesAtExit(heap'[i].symbol))
          /\ FlaggedInOrder]_vars

\* The rule of C4 in the calls whose exit evaluation returned (every active
\* position then has its current price set).
FlagRuleWhenEvaluated ==
    [][(IsTickCall(last') /\ last'.updated /\ last'.error # "TypeError") =>
          /\ \A i \in Range(active_positions) :
                FlaggedAtExit(i) <=> QualifiesAtExit(heap'[i].symbol)
          /\ FlaggedInOrder]_vars

\* C8: _close_position on a position that is not in the active list raises
\* an error, appends nothing to the history and removes nothing from the
\* active list.
C8_CloseOfInactiveFails ==
    [][(/\ last'.op = "_close_position"
        /\ last'.exit_signals[1][1] \notin Range(active_positions)) =>
          /\ last'.error # ""
          /\ trade_history' = trade_history
          /\ active_positions' = active_positions]_vars

Ids(strats) == [i \in DOMAIN strats |-> strats[i].id]

\* the positions a dispatch can see: those the call did not open itself
ActiveAtDispatch == {i \in Range(active_positions') : i \in DOMAIN heap}

PlaceInActiveAfter(i) ==
    FirstTrue([j \in DOMAIN active_positions' |-> active_positions'[j] = i])

\* C9: a registration keeps the identifiers in their order, a new one going
\* last, and sets the function of the registered identifier only; a dispatch
\* calls the functions in that order, each with the active positions of its
\* own identifier in active-list order, and returns the signals they
\* returned, in that order.
C9_DispatchOrder ==
    [][/\ last'.op = "register_strategy" =>
            LET sid == last'.invoked[1].id
                f   == last'.invoked[1].func
            IN  /\ Ids(strategies') =
                       IF sid \in Range(Ids(strategies))
                       THEN Ids(strategies) ELSE Append(Ids(strategies), sid)
                /\ \A i \in DOMAIN strategies' :
                       strategies'[i].func =
                           IF strategies'[i].id = sid THEN f ELSE strategies[i].func
       /\ (IsTickCall(last') /\ last'.error \in {"", "StrategyError"}) =>
            LET inv == last'.invoked
                returned == SelectSeq(inv, LAMBDA c : c.result.kind = "signal")
            IN  /\ Len(inv) <= Len(strategies)
                /\ last'.error = "" => Len(inv) = Len(strategies)
                /\ \A k \in DOMAIN inv :
                       /\ inv[k].id = strategies[k].id
                       /\ inv[k].func = strategies[k].func
                       /\ Range(inv[k].positions) =
                              {i \in ActiveAtDispatch : heap[i].strategy_id = inv[k].id}
                       /\ \A a, b \in DOMAIN inv[k].positions :
                              a < b => PlaceInActiveAfter(inv[k].positions[a])
                                          < PlaceInActiveAfter(inv[k].positions[b])
                /\ last'.error = "" =>
                       /\ Len(last'.signals) = Len(returned)
                       /\ \A k \in DOMAIN returned :
                              last'.signals[k] = <<returned[k].id, returned[k].result.signal>>]_vars

\* Strategy A, first registered with f1 (it holds a long position) and then
\* with f2, is still called first, with f2 and its position; B is called
\* second and is the only one that returns a signal.
C9_Witness ==
    /\ IsTickCall(last)
    /\ last.error = ""
    /\ Len(last.invoked) = 2
    /\ last.invoked[1].id = "A"
    /\ last.invoked[1].func = "f2"
    /\ \E i \in Range(last.invoked[1].positions) : heap[i].direction = 1
    /\ Len(last.signals) = 1
    /\ last.signals[1][1] = "B"

OrderDirection(signal) == IF signal.action = "BUY" THEN 1 ELSE -1

\* C10: a call that returns opens one position for each BUY or SELL signal
\* of the dispatch, in dispatch order, and none for any other signal: the
\* position is built from the tick, the signal's size and the strategy's
\* identifier, has MFE = MAE = 0 and no current price, goes to the end of
\* the active list, and gets an OPEN entry at the end of the history. A call
\* that raises opens nothing.
C10_OpensFollowDispatch ==
    [][IsTickCall(last') =>
          LET orders == SelectSeq(last'.signals,
                                  LAMBDA p : p[2].action \in {"BUY", "SELL"})
              n  == Len(orders)
              na == Len(active_positions')
              nh == Len(trade_history')
          IN  /\ last'.error # "" => n = 0
              /\ Len(heap') = Len(heap) + n
              /\ na >= n /\ nh >= n
              /\ \A k \in 1..n :
                    LET i == Len(heap) + k
                    IN  /\ heap'[i] =
                               [symbol |-> last'.tick.symbol,
                                entry_price |-> last'.tick.price,
                                entry_time |-> last'.tick.timestamp,
                                direction |-> OrderDirection(orders[k][2]),
                                size |-> orders[k][2].size,
                                strategy_id |-> orders[k][1],
                                current_price |-> None,
                                max_favorable_excursion |-> 0,
                                max_adverse_excursion |-> 0,
                                exit_price |-> None, exit_time |-> None,
                                exit_reason |-> None]
                        /\ active_positions'[na - n + k] = i
                        /\ trade_history'[nh - n + k] =
                               [action |-> "OPEN",
                                timestamp |-> last'.tick.timestamp,
                                position |-> i, reason |-> None]
              /\ \A a \in DOMAIN Appended :
                    Appended[a].action = "OPEN" => a > Len(Appended) - n]_vars

\* a call whose dispatch returned a BUY of A and then a SELL of B: the long
\* position of A is opened first and the short one of B behind it
C10_Witness ==
    /\ IsTickCall(last)
    /\ last.error = ""
    /\ Len(last.signals) = 2
    /\ last.signals[1] = <<"A", [action |-> "BUY", size |-> 1]>>
    /\ last.signals[2] = <<"B", [action |-> "SELL", size |-> 1]>>
    /\ Len(active_positions) = 2
    /\ heap[active_positions[1]].direction = 1
    /\ heap[active_positions[1]].strategy_id = "A"
    /\ heap[active_positions[2]].direction = -1
    /\ heap[active_positions[2]].strategy_id = "B"
    /\ trade_history[Len(trade_history)].position = active_positions[2]

Exposure == [i \in DOMAIN heap |-> heap[i].size * heap[i].direction]

\* the profit/loss of a position whose current price is set, 0 for the others
KnownProfit ==
    [i \in DOMAIN heap |->
        IF heap[i].current_price = None THEN 0 ELSE profit_loss(heap[i])]

\* C11: the metrics a tick call returns count the active positions, sum
\* size * direction over them, and sum the profit/loss over exactly those
\* whose current price is set, a price of 0 included.
C11_MetricsSnapshot ==
    (IsTickCall(last) /\ last.error = "") =>
        /\ last.metrics.total_positions = Len(active_positions)
        /\ last.metrics.net_exposure = SumOver(Range(active_positions), Exposure)
        /\ last.metrics.total_profit_loss =
               SumOver({i \in Range(active_positions) : heap[i].current_price # None},
                       KnownProfit)

Recorded == {trade_history[k].position : k \in DOMAIN trade_history}

\* C12: every position of the active list or of the trade history has
\* direction +1 or -1 and a size > 0, whatever the signals carried.
C12_DirectionAndSize ==
    \A i \in Range(active_positions) \cup Recorded :
        /\ heap[i].direction \in {1, -1}
        /\ heap[i].size > 0

ClosesOf(history, i) ==
    {k \in DOMAIN history : history[k].action = "CLOSE" /\ history[k].position = i}

\* C13: a position that has a CLOSE entry is not in the active list after any
\* later step, keeps every field value (current price, MFE, MAE, exit
\* fields), and gets no further CLOSE entry: no position ever has two.
C13_CloseIsFinal ==
    [][/\ \A i \in DOMAIN heap :
            ClosesOf(trade_history, i) # {} =>
                /\ i \notin Range(active_positions')
                /\ heap'[i] = heap[i]
                /\ ClosesOf(trade_history', i) = ClosesOf(trade_history, i)
       /\ \A i \in DOMAIN heap' :
            Cardinality(ClosesOf(trade_history', i)) <= 1]_vars

\* a later tick of the instrument of a closed position, at another price than
\* the one the position was closed at, has been processed
C13_Witness ==
    /\ IsTickCall(last)
    /\ last.updated
    /\ last.exit_signals = <<>>
    /\ \E i \in DOMAIN heap :
          /\ ClosesOf(trade_history, i) # {}
          /\ heap[i].symbol = last.tick.symbol
          /\ heap[i].exit_price # Some(last.tick.price)
          /\ heap[i].current_price # Some(last.tick.price)
          /\ heap[i].exit_reason = Some("MFE_TRAILING_STOP")

\* what an entry of the history shows of its position: the entry holds a
\* reference to the Position object, so it shows the object's present values
Snapshot(hp, entry) ==
    [current_price |-> hp[entry.position].current_price,
     max_favorable_excursion |-> hp[entry.position].max_favorable_excursion,
     max_adverse_excursion |-> hp[entry.position].max_adverse_excursion,
     exit_price |-> hp[entry.position].exit_price,
     exit_time |-> hp[entry.position].exit_time,
     exit_reason |-> hp[entry.position].exit_reason]

\* C14: a call of process_tick_data keeps the history it found as a prefix,
\* and the position values shown by every OPEN entry already there stay as
\* they were.
C14_HistoryEntriesImmutable ==
    [][IsTickCall(last') =>
          /\ Len(trade_history') >= Len(trade_history)
          /\ SubSeq(trade_history', 1, Len(trade_history)) = trade_history
          /\ \A k \in DOMAIN trade_history :
                trade_history[k].action = "OPEN" =>
                    Snapshot(heap', trade_history[k]) = Snapshot(heap, trade_history[k])]_vars

\* The part of C14 that is about the list itself: the history only grows at
\* its end.
HistoryIsAppendOnly ==
    [][/\ Len(trade_history') >= Len(trade_history)
       /\ SubSeq(trade_history', 1, Len(trade_history)) = trade_history]_vars

IsMetricsCall(l) == l.op = "calculate_portfolio_metrics"

\* C15: a call of calculate_portfolio_metrics changes no position, neither
\* list; it returns what the call before it returned when that was a call of
\* calculate_portfolio_metrics too or a tick call that returned its metrics.
C15_MetricsArePure ==
    [][IsMetricsCall(last') =>
          /\ last'.error = ""
          /\ heap' = heap
          /\ active_positions' = active_positions
          /\ trade_history' = trade_history
          /\ last'.metrics = calculate_portfolio_metrics(heap', active_positions')
          /\ (IsMetricsCall(last) \/ (IsTickCall(last) /\ last.error = ""))
                => last'.metrics = last.metrics]_vars

\* the metrics were asked for while a position without current price and a
\* position with a profit were active
C15_Witness ==
    /\ IsMetricsCall(last)
    /\ last.metrics.total_positions = 2
    /\ last.metrics.total_profit_loss > 0
    /\ \E i \in Range(active_positions) : heap[i].current_price = None

Max(S) == CHOOSE x \in S : \A y \in S : y <= x

Min(S) == CHOOSE x \in S : \A y \in S : x <= y

\* the values (price - entryPrice) * direction * size of position i over the
\* ticks of its instrument processed since it was opened
SeenProfits(i) ==
    {(seen[i][k] - heap[i].entry_price) * heap[i].direction * heap[i].size :
        k \in DOMAIN seen[i]}

\* C16: for every active position, the current price is the price of the
\* latest tick of its instrument processed since it was opened (None when
\* there was none), MFE is the maximum and MAE the minimum of 0 and its
\* profit/loss values over those ticks; the opening tick is not one of them.
C16_PriceAndExcursions ==
    \A i \in Range(active_positions) :
        /\ heap[i].current_price =
               IF seen[i] = <<>> THEN None ELSE Some(seen[i][Len(seen[i])])
        /\ heap[i].max_favorable_excursion = Max({0} \cup SeenProfits(i))
        /\ heap[i].max_adverse_excursion = Min({0} \cup SeenProfits(i))

\* an active position that saw two ticks, the first at a profit and the
\* second below it, next to a position opened by the last tick
C16_Witness ==
    /\ IsTickCall(last)
    /\ \E i, j \in Range(active_positions) :
          /\ Len(seen[i]) = 2
          /\ heap[i].max_favorable_excursion > 0
          /\ profit_loss(heap[i]) < heap[i].max_favorable_excursion
          /\ seen[j] = <<>>
          /\ heap[j].entry_price = last.tick.price
          /\ heap[j].symbol = last.tick.symbol

SameEntry(p, q) ==
    /\ p.symbol = q.symbol
    /\ p.entry_price = q.entry_price
    /\ p.entry_time = q.entry_time
    /\ p.direction = q.direction
    /\ p.size = q.size
    /\ p.strategy_id = q.strategy_id

OtherInstrument(p, tick_data) ==
    "symbol" \notin DOMAIN tick_data \/ p.symbol # tick_data.symbol

\* C17: a call of update_positions leaves the active list and the history
\* as they are, changes no entry field of any position, and changes nothing
\* of a position whose symbol is not the tick's; the update step of a call of
\* process_tick_data does the same to current price, MFE and MAE.
C17_UpdateFrame ==
    [][/\ last'.op = "update_positions" =>
            /\ active_positions' = active_positions
            /\ trade_history' = trade_history
            /\ DOMAIN heap' = DOMAIN heap
            /\ \A i \in DOMAIN heap :
                  /\ SameEntry(heap'[i], heap[i])
                  /\ OtherInstrument(heap[i], last'.tick) => heap'[i] = heap[i]
       /\ (IsTickCall(last') /\ last'.updated) =>
            \A i \in DOMAIN heap :
                  /\ SameEntry(heap'[i], heap[i])
                  /\ OtherInstrument(heap[i], last'.tick) =>
                        /\ heap'[i].current_price = heap[i].current_price
                        /\ heap'[i].max_favorable_excursion = heap[i].max_favorable_excursion
                        /\ heap'[i].max_adverse_excursion = heap[i].max_adverse_excursion]_vars

\* update_positions was called with a tick of X while a position of X and
\* a position of Y were active: the first has the tick's price, the second
\* has not
C17_Witness ==
    /\ last.op = "update_positions"
    /\ "symbol" \in DOMAIN last.tick
    /\ \E i, j \in Range(active_positions) :
          /\ heap[i].symbol = last.tick.symbol
          /\ heap[i].current_price = Some(last.tick.price)
          /\ heap[i].max_favorable_excursion > 0
          /\ heap[j].symbol # last.tick.symbol
          /\ heap[j].current_price # Some(last.tick.price)

OpensOf(history, i) ==
    {k \in DOMAIN history : history[k].action = "OPEN" /\ history[k].position = i}

\* the positions of the OPEN entries, in the order of the entries
OpenedInOrder ==
    LET opens == SelectSeq(trade_history, LAMBDA entry : entry.action = "OPEN")
    IN  [k \in DOMAIN opens |-> opens[k].position]

\* C19: the active list is the positions that have an OPEN entry and no CLOSE
\* entry, in the order of their OPEN entries; so the OPEN entries minus the
\* CLOSE entries number the active positions, and every CLOSE entry comes
\* after the OPEN entry of its position. (In every state of Spec: after the
\* calls that return, those that validation rejects, and those that raise.)
C19_ActiveIsOpenMinusClose ==
    /\ active_positions =
           SelectSeq(OpenedInOrder, LAMBDA i : ClosesOf(trade_history, i) = {})
    /\ Len(active_positions) =
           Cardinality({k \in DOMAIN trade_history : trade_history[k].action = "OPEN"})
           - Cardinality({k \in DOMAIN trade_history : trade_history[k].action = "CLOSE"})
    /\ \A k \in DOMAIN trade_history :
           trade_history[k].action = "CLOSE" =>
               \E j \in OpensOf(trade_history, trade_history[k].position) : j < k

\* a tick is rejected by validation when the history holds the OPEN and the
\* CLOSE entry of one position and the OPEN entry of another, which is active
C19_Witness ==
    /\ IsTickCall(last)
    /\ last.error = "ValueError"
    /\ Len(trade_history) = 3
    /\ Len(active_positions) = 1
    /\ \E i \in DOMAIN heap : ClosesOf(trade_history, i) # {}

\* C20: a tick call closes no position of a group whose summed MFE is 0:
\* every active position of such a group is still active after the call and
\* has no exit reason.
C20_NoCloseWithoutGain ==
    [][IsTickCall(last') =>
          \A i \in Range(active_positions) :
              SumOver(GroupAtExit(heap'[i].symbol), MfeAtExit) = 0 =>
                  /\ i \in Range(active_positions')
                  /\ ~FlaggedAtExit(i)
                  /\ heap'[i].exit_reason = None]_vars

\* a long position that never had a profit is still active after a tick that
\* took the price from its entry price 20 to 0
C20_Witness ==
    /\ IsTickCall(last)
    /\ last.error = ""
    /\ last.tick.price = 0
    /\ \E i \in Range(active_positions) :
          /\ heap[i].symbol = last.tick.symbol
          /\ heap[i].max_favorable_excursion = 0
          /\ heap[i].current_price = Some(0)
          /\ profit_loss(heap[i]) = -20

====
